---------------------------- MODULE Spec2Model ----------------------------
(***************************************************************************)
(* A model of ci_vector_processor.py: the chunker (get_chunks), and the    *)
(* processing runs of CICDVectorProcessor against the ChromaDB collection  *)
(* and the Pinecone index.                                                 *)
(*                                                                         *)
(* Text is a sequence of one-character strings.  Python's half-open,       *)
(* zero-based positions are kept: position p of a text s is s[p + 1].      *)
(***************************************************************************)
EXTENDS Integers, Sequences, FiniteSets, TLC

VARIABLES
    \* ---- one call of get_chunks --------------------------------------
    content,        \* the text handed to get_chunks
    chunk_size,     \* its chunk_size parameter
    overlap,        \* its overlap parameter
    start,          \* the local variable start
    chunks,         \* the local list chunks (the returned list once cpc = "done")
    spans,          \* history: for each element of chunks, the positions <<lo, hi>>
                    \* of content it was cut from (content[lo:hi])
    windows,        \* history: the <<start, end>> of every loop iteration so far
    cpc,            \* position in get_chunks: "call", "loop", "done"
    \* ---- the processor and what it works on ---------------------------
    tree,           \* the entries under the processed root (the data directory, or
                    \* the cloned repository): path -> [kind, text, size]
    data_exists,    \* whether the directory to process (data, slack files) exists
    collection,     \* self.collection, the ChromaDB collection: one record per id
    pinecone_index, \* the vectors held by the Pinecone index
    use_pinecone,   \* self.use_pinecone and self.pinecone_index (set by __init__)
    openai_client,  \* whether self.openai_client is set (by _setup_pinecone)
    clone_exists,   \* whether the directory clone_path exists
    \* ---- one call of process_all_files or process_repo_incremental ----
    op,             \* the method running or last run, "none" before the first
    pc,             \* position in it: "idle", "files", "add", "upload",
                    \* "returned", "raised" (the call ended in an exception),
                    \* and in main after it: "reported", "exited"
    changed_files,  \* process_repo_incremental's argument (<<>>: None or empty)
    force_rebuild,  \* process_repo_incremental's argument
    files_to_process, \* the part of the traversal still to visit
    documents,      \* the lists documents, metadatas and ids: one record per chunk
    vectors_for_pinecone,
    processed_files,
    batch_start,    \* the loop variable i of the batch loop under way
    result,         \* the returned dict, once pc = "returned"
    \* ---- history -----------------------------------------------------
    calls,          \* the store calls of this call: [store, first, last, ok]
    outcomes,       \* what became of each visited entry: [path, fate]
    runs,           \* calls started so far
    faults,         \* failures that have happened so far
    before,         \* what the call under way found when it started
    \* ---- main, around its call of process_all_files ---------------------
    report,         \* what this run of main wrote to processing_results.json
    exit_status,    \* the exit status of the process, once it has ended
    \* ---- the strings that are hashed into chunk ids ----------------------
    id_args,        \* two argument tuples of one of the three id expressions
    id_strings,     \* the two strings built from them
    \* ---- one call of should_process_file ---------------------------------
    filter_args,    \* its file_path, and what the file's stat() calls give
    filter_out,     \* what it returned, "none" before it has
    \* ---- one call of get_file_content -----------------------------------
    loader_args,    \* the file: what open/read gives under each encoding
    loader_out,     \* what the call returned, and how many encodings it tried
    \* ---- the chat page (streamlit_app.py), one browser session -----------
    chat_history,   \* st.session_state.chat_history: [role, content, sources,
                    \* context_used] of every ChatMessage
    processing,     \* st.session_state.processing
    ui_pc,          \* where the script run of the session is: "rest" (no run
                    \* under way), "spinner_enter", "chat", "spinner_exit"
    question,       \* the text of the input box in the run under way
    pending,        \* the widget event that arrived during the run under way
    chat_args       \* the arguments of the last call of rag_system.chat

gcvars == <<content, chunk_size, overlap, start, chunks, spans, windows, cpc>>

envvars == <<tree, data_exists, collection, pinecone_index, use_pinecone,
             openai_client, clone_exists>>

runvars == <<op, pc, changed_files, force_rebuild, files_to_process, documents,
             vectors_for_pinecone, processed_files, batch_start, result>>

histvars == <<calls, outcomes, runs, faults, before>>

mainvars == <<report, exit_status>>

idvars == <<id_args, id_strings>>

filtervars == <<filter_args, filter_out>>

loadervars == <<loader_args, loader_out>>

chatvars == <<chat_history, processing, ui_pc, question, pending, chat_args>>

unitvars == <<idvars, filtervars, loadervars, chatvars>>

pvars == <<envvars, runvars, histvars, mainvars>>

vars == <<gcvars, pvars, unitvars>>

-----------------------------------------------------------------------------
(* Bounds of the model *)

\* longest text of the exhaustive small-scale runs of get_chunks
MaxLen == 7

\* largest chunk_size of the small-scale runs; they use MaxChunk - 1 and MaxChunk
MaxChunk == 5

\* a call of get_chunks is followed for len(content) + MaxExtra loop iterations
\* at most (a loop whose start advances ends within len(content) iterations)
MaxExtra == 2

\* calls of process_all_files and process_repo_incremental in one behaviour
MaxRuns == 2

\* failures (of a file operation, an embedding or a store call) in one behaviour
MaxFaults == 1

\* batch_size of the ChromaDB batch loop (5000 in the source, line 178) and of
\* the Pinecone batch loop (100 in the source, line 209), scaled down so that a
\* run over the model's few chunks needs several batches
ChromaBatch == 2

PineconeBatch == 1

\* the chunk_size and overlap that the processor's calls of get_chunks run with
\* (its defaults, 1000 and 200, in the source), scaled down so that a file of a
\* few characters is cut into several chunks
RunChunkSize == 4

RunOverlap == 1

\* the defaults of get_chunks' parameters chunk_size and overlap
DefaultChunkSize == 1000

DefaultOverlap == 200

-----------------------------------------------------------------------------
(* Python built-ins used by the code *)

Min2(a, b) == IF a <= b THEN a ELSE b

Max2(a, b) == IF a >= b THEN a ELSE b

SetMax(S) == CHOOSE x \in S : \A y \in S : y <= x

\* the characters of the model's texts: a letter, the period, a blank
Alphabet == {"a", ".", " "}

\* str.strip() removes whitespace
IsSpace(c) == c = " "

\* how a slice bound i is read against a text of length n: a negative bound
\* counts from the end, and both are clamped to 0..n
PyIndex(i, n) == IF i < 0 THEN Max2(i + n, 0) ELSE Min2(i, n)

\* s[i:j]
Slice(s, i, j) ==
    LET a == PyIndex(i, Len(s))
        b == PyIndex(j, Len(s))
    IN  IF a < b THEN SubSeq(s, a + 1, b) ELSE <<>>

\* s.rfind(ch, i, j): the highest position in s[i:j] holding ch, or -1
RFind(s, ch, i, j) ==
    LET a == PyIndex(i, Len(s))
        b == PyIndex(j, Len(s))
        hits == {k \in a .. (b - 1) : s[k + 1] = ch}
    IN  IF hits = {} THEN -1 ELSE SetMax(hits)

\* the positions <<lo, hi>> of s that s[i:j].strip() is cut from (lo = hi when
\* nothing is left)
StripSpan(s, i, j) ==
    LET a == PyIndex(i, Len(s))
        b == PyIndex(j, Len(s))
    IN  IF a >= b \/ \A k \in a .. (b - 1) : IsSpace(s[k + 1])
        THEN <<a, a>>
        ELSE LET lo == CHOOSE k \in a .. (b - 1) :
                           /\ ~IsSpace(s[k + 1])
                           /\ \A m \in a .. (k - 1) : IsSpace(s[m + 1])
                 hi == CHOOSE k \in (a + 1) .. b :
                           /\ ~IsSpace(s[k])
                           /\ \A m \in (k + 1) .. b : IsSpace(s[m])
             IN  <<lo, hi>>

\* s.strip()
Strip(s) ==
    LET sp == StripSpan(s, 0, Len(s))
    IN  Slice(s, sp[1], sp[2])

-----------------------------------------------------------------------------
(* get_chunks: the body of its while loop, piece by piece *)

\* mutant of WindowEnd: a period at the midpoint position snaps the end too
WindowEndAtMidpoint(s, size, st) ==
    LET end == Min2(st + size, Len(s))
    IN  IF end < Len(s)
        THEN LET sentence_break == RFind(s, ".", st, end)
             IN  IF sentence_break >= st + (size \div 2)
                 THEN sentence_break + 1
                 ELSE end
        ELSE end

\* end = min(start + chunk_size, len(content)), then snapped back to just after
\* the last period of the window when that period lies beyond the midpoint
WindowEnd(s, size, st) ==
    LET end == Min2(st + size, Len(s))
    IN  IF end < Len(s)
        THEN LET sentence_break == RFind(s, ".", st, end)
             IN  IF sentence_break > st + (size \div 2)
                 THEN sentence_break + 1
                 ELSE end
        ELSE end

\* mutants of NextStart: the overlap is subtracted after the last window too;
\* no overlap is subtracted; the overlap is added; one more than the overlap is
\* subtracted
NextStartAlwaysBack(s, ov, end) == end - ov

NextStartNoOverlap(s, ov, end) == end

NextStartForward(s, ov, end) == IF end < Len(s) THEN end + ov ELSE end

NextStartWide(s, ov, end) == IF end < Len(s) THEN end - (ov + 1) ELSE end

\* start = end - overlap if end < len(content) else end
NextStart(s, ov, end) == IF end < Len(s) THEN end - ov ELSE end

\* chunk = content[start:end].strip()
ChunkText(s, st, end) == Strip(Slice(s, st, end))

\* mutant of AppendChunk: the chunk is appended without the test
AppendChunkAlways(list, chunk) == Append(list, chunk)

\* if chunk: chunks.append(chunk)
AppendChunk(list, chunk) == IF chunk # <<>> THEN Append(list, chunk) ELSE list

\* if len(content) <= chunk_size: return [content]
IsShort(s, size) == Len(s) <= size

\* mutant of ShortResult: the short path returns no chunk
ShortResultNone(s) == <<>>

ShortResult(s) == <<s>>

\* get_chunks before its first statement
InitCall ==
    /\ start = 0
    /\ chunks = <<>>
    /\ spans = <<>>
    /\ windows = <<>>
    /\ cpc = "call"

\* get_chunks as a whole: the loop run to its end (for at most fuel iterations)
RECURSIVE ChunkLoop(_, _, _, _, _, _)
ChunkLoop(s, size, ov, st, list, fuel) ==
    IF ~(st < Len(s)) \/ fuel = 0
    THEN list
    ELSE LET end == WindowEnd(s, size, st)
         IN  ChunkLoop(s, size, ov, NextStart(s, ov, end),
                       AppendChunk(list, ChunkText(s, st, end)), fuel - 1)

GetChunks(s, size, ov) ==
    IF IsShort(s, size) THEN ShortResult(s)
    ELSE ChunkLoop(s, size, ov, 0, <<>>, Len(s) + MaxExtra)

-----------------------------------------------------------------------------
(* The files the processor reads *)

\* the entries that may lie under the processed root; parts and suffix are
\* pathlib's Path.parts and Path.suffix of the path relative to the root
PathA == [parts |-> <<"a.py">>, suffix |-> ".py"]

PathB == [parts |-> <<"docs", "b.md">>, suffix |-> ".md"]

PathImg == [parts |-> <<"docs", "c.PNG">>, suffix |-> ".PNG"]

PathBig == [parts |-> <<"big.txt">>, suffix |-> ".txt"]

PathDir == [parts |-> <<"docs">>, suffix |-> ""]

Paths == {PathA, PathB, PathImg, PathBig, PathDir}

\* two entries of a change list that name no file of the tree: repo_path /
\* "REMOVED:old/file.py" and repo_path / "FULL_SYNC"
PathRemoved == [parts |-> <<"REMOVED:old", "file.py">>, suffix |-> ".py"]

PathSentinel == [parts |-> <<"FULL_SYNC">>, suffix |-> ""]

\* the order in which rglob("*") yields the entries
RglobOrder == <<PathA, PathBig, PathDir, PathB, PathImg>>

\* the files whose content changes between runs
EditablePaths == {PathA}

\* file contents: two short texts, a blank one, and one twice as long as the
\* chunk_size of the run, whose second half is blank (its last window holds
\* nothing but whitespace)
TextOld == <<"a", "a", ".">>

TextNew == <<"a", " ", "a">>

TextBlank == <<" ", " ">>

TextLong ==
    [i \in 1 .. (2 * RunChunkSize) |-> IF i <= RunChunkSize THEN "a" ELSE " "]

Contents == <<TextOld, TextNew, TextBlank, TextLong>>

ContentSet == {Contents[i] : i \in 1 .. Len(Contents)}

\* 10 * 1024 * 1024, the size above which should_process_file skips a file
SizeLimit == 10 * 1024 * 1024

File(text) == [kind |-> "file", text |-> text, size |-> Len(text)]

Absent == [kind |-> "absent", text |-> <<>>, size |-> 0]

InitialTree ==
    [p \in Paths |->
        CASE p = PathA -> File(TextOld)
          [] p = PathB -> File(TextLong)
          [] p = PathImg -> File(TextOld)
          [] p = PathBig -> [kind |-> "file", text |-> TextOld, size |-> SizeLimit + 1]
          [] p = PathDir -> [kind |-> "dir", text |-> <<>>, size |-> 0]]

\* str(path): the parts joined by "/"
RECURSIVE JoinParts(_)
JoinParts(parts) ==
    IF Len(parts) = 1 THEN parts[1]
    ELSE parts[1] \o "/" \o JoinParts(Tail(parts))

PathStr(p) == JoinParts(p.parts)

\* the data directory of process_all_files (its default, "./data"), the
\* directory of process_slack_files (its default, "./slack_files") and the
\* clone_path and repo_url of process_repo_incremental
DataDir == "data"

SlackDir == "slack_files"

ClonePath == "temp_repo_0a1b2c3d"

RepoUrl == "https://host/repo.git"

\* str.lower() on the suffixes of the model
Lower(x) ==
    CASE x = ".PNG" -> ".png"
      [] x = ".Png" -> ".png"
      [] x = ".PDF" -> ".pdf"
      [] OTHER -> x

skip_extensions ==
    {".idx", ".pack", ".pyc", ".rev", ".sample",
     ".jpg", ".jpeg", ".png", ".gif", ".bmp", ".tiff", ".webp",
     ".pdf", ".zip", ".tar", ".gz", ".rar", ".7z",
     ".mp4", ".avi", ".mov", ".wmv", ".mp3", ".wav",
     ".exe", ".dll", ".so", ".dylib", ".bin"}

skip_folders ==
    {"node_modules", ".git", "__pycache__", ".venv", "venv",
     "env", "wiki_data", ".github", "target", "build", "dist"}

\* what one call of file_path.stat() gives: a result with st_size, or an
\* OSError (the file has gone, a directory of the path cannot be searched)
StatOf(size) == [raises |-> FALSE, st_size |-> size]

StatRaises == [raises |-> TRUE, st_size |-> 0]

\* the try block of the size check: stats[1] is what the stat() of the
\* comparison gives and stats[2] what the stat() inside the warning gives,
\* which is called only for a file above the limit; TRUE when the block
\* returns False.  An exception of either call is passed over (except: pass)
TooLarge(stats) ==
    IF stats[1].raises THEN FALSE
    ELSE IF stats[1].st_size > SizeLimit THEN ~stats[2].raises
    ELSE FALSE

\* should_process_file(root / p), for an entry whose stat() calls give stats
ShouldProcessFile(root, p, stats) ==
    /\ \A i \in 1 .. Len(p.parts) : p.parts[i] \notin skip_folders
    /\ root \notin skip_folders
    /\ Lower(p.suffix) \notin skip_extensions
    /\ ~TooLarge(stats)

\* the stat() calls on an entry of the tree, which is_file() has just found
StatsOf(e) == <<StatOf(e.size), StatOf(e.size)>>

\* file_path.is_file() and self.should_process_file(file_path)
IsEligible(root, p, t) ==
    t[p].kind = "file" /\ ShouldProcessFile(root, p, StatsOf(t[p]))

\* list(root.rglob("*")): every entry that exists, in traversal order
Rglob(t) == SelectSeq(RglobOrder, LAMBDA p : t[p].kind # "absent")

\* (repo_path / changed_file).exists()
Exists(t, p) == p \in DOMAIN t /\ t[p].kind # "absent"

\* [repo_path / f for f in changed_files if (repo_path / f).exists()]
ExistingOf(t, list) == SelectSeq(list, LAMBDA p : Exists(t, p))

\* hashlib.md5(x).hexdigest(), taken to be free of collisions: of a file's
\* content, and of an id string
Md5OfContent(text) ==
    "d" \o ToString(CHOOSE i \in 1 .. Len(Contents) : Contents[i] = text)

Md5OfString(x) == "md5(" \o x \o ")"

\* get_file_hash: the digest, or "" when reading the file failed
GetFileHash(text, hash_ok) == IF hash_ok THEN Md5OfContent(text) ELSE ""

\* get_file_content: the text, or "" when reading or decoding failed
GetFileContent(text, load_ok) == IF load_ok THEN text ELSE <<>>

\* self.get_chunks(content), for each content of the model
RunChunks == [c \in ContentSet |-> GetChunks(c, RunChunkSize, RunOverlap)]

\* part.endswith('.git'), over the path parts of the model
EndsWithGit(part) == part \in {"repo.git"}

\* _determine_source_type(relative_path)
DetermineSourceType(p) ==
    IF \E i \in 1 .. Len(p.parts) : p.parts[i] = "slack_files" THEN "slack"
    ELSE IF \E i \in 1 .. Len(p.parts) : p.parts[i] = "github_repos" THEN "github"
    ELSE IF \E i \in 1 .. Len(p.parts) : EndsWithGit(p.parts[i]) THEN "github"
    ELSE "manual_upload"

\* the chunk ids: md5 of f"{file_path}_{i}_{file_hash}" in process_all_files,
\* of f"{repo_url}_{relative_path}_{i}_{file_hash}" in process_repo_incremental
\* (i is the zero-based chunk index)
\* mutant of ChunkIdOfPath: the id string holds the number of the run too
ChunkIdOfPathStamped(file_path, i, file_hash) ==
    Md5OfString(file_path \o "_" \o ToString(i) \o "_" \o file_hash
                \o "_" \o ToString(runs))

\* hashlib.md5(f"{file_path}_{i}_{file_hash}".encode()).hexdigest()
ChunkIdOfPath(file_path, i, file_hash) ==
    Md5OfString(file_path \o "_" \o ToString(i) \o "_" \o file_hash)

ChunkIdOfRepo(url, relative_path, i, file_hash) ==
    Md5OfString(url \o "_" \o relative_path \o "_" \o ToString(i) \o "_" \o file_hash)

\* a metadata key the method does not set
Unset == "<unset>"

\* the records process_all_files appends for one file: document, id and
\* metadata of every chunk (processed_at, the time of day, is left out)
FullRecords(p, text, file_hash) ==
    LET list == RunChunks[text]
    IN  [k \in 1 .. Len(list) |->
            [id |-> ChunkIdOfPath(DataDir \o "/" \o PathStr(p), k - 1, file_hash),
             document |-> list[k],
             file_path |-> PathStr(p),
             chunk_index |-> k - 1,
             filetype |-> p.suffix,
             source_type |-> DetermineSourceType(p),
             repo_url |-> Unset,
             source |-> Unset,
             file_hash |-> file_hash]]

\* the records process_repo_incremental appends for one file
RepoRecords(p, text, file_hash) ==
    LET list == RunChunks[text]
    IN  [k \in 1 .. Len(list) |->
            [id |-> ChunkIdOfRepo(RepoUrl, PathStr(p), k - 1, file_hash),
             document |-> list[k],
             file_path |-> PathStr(p),
             chunk_index |-> k - 1,
             filetype |-> p.suffix,
             source_type |-> Unset,
             repo_url |-> RepoUrl,
             source |-> Unset,
             file_hash |-> file_hash]]

\* file_path.name: the last part of the path
Name(p) == p.parts[Len(p.parts)]

\* the string process_slack_files hashes into a chunk id
ChunkIdOfSlack(name, i, file_hash) ==
    Md5OfString("slack_" \o name \o "_" \o ToString(i) \o "_" \o file_hash)

\* the records process_slack_files appends for one file
SlackRecords(p, text, file_hash) ==
    LET list == RunChunks[text]
    IN  [k \in 1 .. Len(list) |->
            [id |-> ChunkIdOfSlack(Name(p), k - 1, file_hash),
             document |-> list[k],
             file_path |-> PathStr(p),
             chunk_index |-> k - 1,
             filetype |-> p.suffix,
             source_type |-> Unset,
             repo_url |-> Unset,
             source |-> "slack",
             file_hash |-> file_hash]]

\* the vectors appended for the records whose embedding was obtained
VectorsOf(records, embedded) ==
    SelectSeq(records, LAMBDA r : (r.chunk_index + 1) \in embedded)

\* the ids a set or sequence of records holds
IdsOf(S) == {r.id : r \in S}

Range(q) == {q[i] : i \in 1 .. Len(q)}

\* mutant of CollectionAdd: the collection holds the added records only
CollectionAddReplacing(coll, q) == Range(q)

\* collection.add(...): the records are stored under their ids; an id the
\* collection already holds keeps its record
CollectionAdd(coll, q) ==
    coll \cup {r \in Range(q) : r.id \notin IdsOf(coll)}

\* pinecone_index.upsert(vectors=...): a vector replaces the one with its id
IndexUpsert(idx, q) ==
    {v \in idx : v.id \notin IdsOf(Range(q))} \cup Range(q)

\* _remove_file_chunks(file_path, repo_url): its body is "pass"
RemoveFileChunks(coll, file_path, url) == coll

\* mutant of AfterFileError: the error ends the traversal
AfterFileErrorAbort(rest) == <<>>

\* what the per-file except clause does with the rest of the traversal: it
\* logs the error and continues with the next entry
AfterFileError(rest) == rest

\* no id string is being built
ParkedIds ==
    /\ id_args = <<>>
    /\ id_strings = <<>>

\* should_process_file is not being called on its own
ParkedFilter ==
    /\ filter_args = <<>>
    /\ filter_out = "none"

\* get_file_content is not being called on its own
ParkedLoader ==
    /\ loader_args = <<>>
    /\ loader_out = <<>>

\* no chat page is open
ParkedChat ==
    /\ chat_history = <<>>
    /\ processing = FALSE
    /\ ui_pc = "rest"
    /\ question = ""
    /\ pending = "none"
    /\ chat_args = <<>>

\* the methods that are also looked at one call at a time, and the chat page,
\* are not in use
ParkedUnits ==
    /\ ParkedIds
    /\ ParkedFilter
    /\ ParkedLoader
    /\ ParkedChat

-----------------------------------------------------------------------------
(* The processor: construction, and what happens between its calls *)

NoResult == [none |-> TRUE]

\* processing_results.json not written by this run of main; the process has
\* not ended
NoReport == [none |-> TRUE]

NoExit == "none"

\* the call that has just ended was a call of process_all_files in which no
\* file operation, no embedding and no store call failed
CleanFullRun ==
    /\ op = "process_all_files"
    /\ pc \in {"returned", "reported", "exited"}
    /\ "success" \in DOMAIN result
    /\ result.success
    /\ \A k \in 1 .. Len(outcomes) :
           outcomes[k].fate \in {"filtered", "blank", "processed"}
    /\ \A k \in 1 .. Len(calls) : calls[k].ok
    /\ use_pinecone /\ openai_client => Len(vectors_for_pinecone) = Len(documents)

\* what a call finds when it starts: the collection, and the ids that the call
\* just before it emitted when that was a clean call of process_all_files over
\* the tree as it still is
NoBefore == [store |-> {}, after_clean_full |-> FALSE, emitted |-> {}]

Snapshot ==
    [store |-> collection,
     after_clean_full |-> CleanFullRun,
     emitted |-> IF CleanFullRun THEN {documents[k].id : k \in 1 .. Len(documents)}
                 ELSE {}]

\* the locals of a call before its first statement
FreshLocals ==
    /\ documents' = <<>>
    /\ vectors_for_pinecone' = <<>>
    /\ processed_files' = 0
    /\ batch_start' = 0
    /\ calls' = <<>>
    /\ outcomes' = <<>>
    /\ before' = Snapshot
    /\ report' = NoReport
    /\ exit_status' = NoExit

InitRun ==
    /\ op = "none"
    /\ pc = "idle"
    /\ changed_files = <<>>
    /\ force_rebuild = FALSE
    /\ files_to_process = <<>>
    /\ documents = <<>>
    /\ vectors_for_pinecone = <<>>
    /\ processed_files = 0
    /\ batch_start = 0
    /\ result = NoResult
    /\ calls = <<>>
    /\ outcomes = <<>>
    /\ runs = 0
    /\ faults = 0
    /\ before = NoBefore
    /\ report = NoReport
    /\ exit_status = NoExit

\* __init__: an empty collection (get_or_create_collection on a fresh
\* chroma_path); Pinecone and OpenAI are set up or not. (With Pinecone but
\* without an OpenAI client no embedding is obtained and every call runs as it
\* does without Pinecone; and Pinecone plays no part when there is no directory
\* to process.)
ProcessorOver(t) ==
    /\ tree = t
    /\ data_exists \in BOOLEAN
    /\ collection = {}
    /\ pinecone_index = {}
    /\ use_pinecone \in BOOLEAN
    /\ openai_client = use_pinecone
    /\ (use_pinecone => data_exists)
    /\ clone_exists = FALSE
    /\ InitRun

InitProcessor == ProcessorOver(InitialTree)

\* a processor that is constructed and never called
ParkedProcessor ==
    /\ tree = InitialTree
    /\ data_exists = TRUE
    /\ collection = {}
    /\ pinecone_index = {}
    /\ use_pinecone = FALSE
    /\ openai_client = FALSE
    /\ clone_exists = FALSE
    /\ InitRun

\* no call is under way
AtRest == pc \in {"idle", "returned", "raised", "exited"}

\* the locals and the result of a call that has ended are gone
NoLocals ==
    /\ op' = "none"
    /\ pc' = "idle"
    /\ changed_files' = <<>>
    /\ force_rebuild' = FALSE
    /\ files_to_process' = <<>>
    /\ documents' = <<>>
    /\ vectors_for_pinecone' = <<>>
    /\ processed_files' = 0
    /\ batch_start' = 0
    /\ result' = NoResult
    /\ calls' = <<>>
    /\ outcomes' = <<>>
    /\ before' = NoBefore
    /\ report' = NoReport
    /\ exit_status' = NoExit

\* between one call and the next a file is rewritten, removed or created (pc =
\* "returned" and "raised" are the states right after a call, with the tree it
\* ran on)
EditFile ==
    /\ pc \in {"returned", "raised", "exited"}
    /\ runs < MaxRuns
    /\ \E p \in EditablePaths :
       \E e \in {File(TextOld), File(TextNew), File(TextBlank), Absent} :
           /\ e # tree[p]
           /\ tree' = [tree EXCEPT ![p] = e]
    /\ NoLocals
    /\ UNCHANGED <<data_exists, collection, pinecone_index, use_pinecone,
                   openai_client, clone_exists, runs, faults, gcvars, unitvars>>

-----------------------------------------------------------------------------
(* What one pass of the per-file loop does with the entry p.  fate is what  *)
(* happens while the file is read, hashed and identified: "ok";             *)
(* "load_fails", get_file_content returns ""; "hash_fails", get_file_hash   *)
(* returns ""; "identify_fails", a statement of the try block raises (the   *)
(* id string of a file name with an undecodable byte cannot be encoded).    *)
(* embedded is the set of chunks (1-based) whose embedding was obtained.    *)

Fates == {"ok", "load_fails", "hash_fails", "identify_fails"}

IsFailure(fate) == fate # "ok"

\* the text the loop goes on with
LoadedText(p, fate) == GetFileContent(tree[p].text, fate # "load_fails")

\* if not content.strip(): continue
IsBlank(text) == Strip(text) = <<>>

\* what became of the entry
Fate(root, p, fate) ==
    IF ~IsEligible(root, p, tree) THEN "filtered"
    ELSE IF IsBlank(LoadedText(p, fate))
         THEN (IF fate = "load_fails" THEN "load_failed" ELSE "blank")
    ELSE IF fate = "identify_fails" THEN "raised"
    ELSE IF fate = "hash_fails" THEN "processed_unhashed"
    ELSE "processed"

\* mutant of IsProcessed: a file whose hashing failed is passed over
IsProcessedHashedOnly(f) == f = "processed"

IsProcessed(f) == f \in {"processed", "processed_unhashed"}

\* the choices open to one pass over p: failures only while the fault budget
\* lasts and only where the step is reached, embeddings only of chunks there are
\* and only with an OpenAI client
FateChoices(root, p) ==
    IF ~IsEligible(root, p, tree) THEN {"ok"}
    ELSE IF faults >= MaxFaults THEN {"ok"}
    ELSE IF IsBlank(tree[p].text) THEN {"ok", "load_fails"}
    ELSE Fates

EmbeddedChoices(n) ==
    IF ~use_pinecone THEN {{}}
    ELSE IF ~openai_client THEN {{}}
    ELSE IF faults >= MaxFaults THEN {1 .. n}
    ELSE {1 .. n} \cup {(1 .. n) \ {k} : k \in 1 .. n}

-----------------------------------------------------------------------------
(* process_all_files *)

\* return {'success': True, 'processed_files': ..., 'total_chunks': ..., ...}
FullResult(docs, vecs, n, uploaded) ==
    [success |-> TRUE,
     processed_files |-> n,
     total_chunks |-> Len(docs),
     pinecone_uploaded |-> uploaded,
     pinecone_chunks |-> Len(vecs)]

\* the statements after the ChromaDB block: the Pinecone upload is entered when
\* there are vectors, else the result is returned
AfterChromaAdd ==
    IF use_pinecone /\ vectors_for_pinecone # <<>>
    THEN /\ pc' = "upload"
         /\ batch_start' = 0
         /\ result' = result
    ELSE /\ pc' = "returned"
         /\ batch_start' = batch_start
         /\ result' = FullResult(documents, vectors_for_pinecone, processed_files, FALSE)

CallProcessAllFiles ==
    /\ AtRest
    /\ runs < MaxRuns
    /\ runs' = runs + 1
    /\ op' = "process_all_files"
    /\ FreshLocals
    /\ IF ~data_exists
       THEN /\ pc' = "returned"
            /\ result' = [success |-> FALSE, error |-> "Data directory not found"]
            /\ files_to_process' = <<>>
       ELSE /\ pc' = "files"
            /\ result' = NoResult
            /\ files_to_process' = Rglob(tree)
    /\ UNCHANGED <<envvars, changed_files, force_rebuild, faults, gcvars, unitvars>>

\* one pass of "for file_path in data_path.rglob('*')"
FullFile ==
    /\ op = "process_all_files"
    /\ pc = "files"
    /\ files_to_process # <<>>
    /\ LET p == Head(files_to_process)
       IN  \E fate \in FateChoices(DataDir, p) :
             LET what == Fate(DataDir, p, fate)
                 text == LoadedText(p, fate)
                 records == IF IsProcessed(what)
                            THEN FullRecords(p, text, GetFileHash(text, fate # "hash_fails"))
                            ELSE <<>>
             IN  \E embedded \in EmbeddedChoices(Len(records)) :
                   /\ documents' = documents \o records
                   /\ vectors_for_pinecone' =
                          vectors_for_pinecone \o VectorsOf(records, embedded)
                   /\ processed_files' =
                          IF IsProcessed(what) THEN processed_files + 1 ELSE processed_files
                   /\ files_to_process' =
                          IF what = "raised" THEN AfterFileError(Tail(files_to_process))
                          ELSE Tail(files_to_process)
                   /\ outcomes' = Append(outcomes, [path |-> p, fate |-> what])
                   /\ faults' = faults + (IF IsFailure(fate) THEN 1 ELSE 0)
                                       + (IF use_pinecone /\ openai_client
                                          THEN Len(records) - Cardinality(embedded) ELSE 0)
    /\ UNCHANGED <<envvars, op, pc, changed_files, force_rebuild, batch_start,
                   result, calls, runs, gcvars, unitvars,
                   before, mainvars>>

\* the traversal is over: "if documents:" enters the batch loop
FullFilesDone ==
    /\ op = "process_all_files"
    /\ pc = "files"
    /\ files_to_process = <<>>
    /\ IF documents # <<>>
       THEN /\ pc' = "add"
            /\ batch_start' = 0
            /\ result' = result
       ELSE AfterChromaAdd
    /\ UNCHANGED <<envvars, op, changed_files, force_rebuild, files_to_process,
                   documents, vectors_for_pinecone, processed_files, histvars, gcvars, unitvars,
                   mainvars>>

\* one pass of "for i in range(0, total_docs, batch_size)": collection.add is
\* called outside any try, so its exception leaves process_all_files
FullAddBatch ==
    /\ op = "process_all_files"
    /\ pc = "add"
    /\ LET i == batch_start
           end_idx == Min2(i + ChromaBatch, Len(documents))
           batch == SubSeq(documents, i + 1, end_idx)
       IN  \E ok \in (IF faults < MaxFaults THEN BOOLEAN ELSE {TRUE}) :
             /\ calls' = Append(calls, [store |-> "chroma", first |-> i,
                                        last |-> end_idx, ok |-> ok])
             /\ faults' = faults + (IF ok THEN 0 ELSE 1)
             /\ IF ok
                THEN /\ collection' = CollectionAdd(collection, batch)
                     /\ IF i + ChromaBatch < Len(documents)
                        THEN /\ batch_start' = i + ChromaBatch
                             /\ pc' = "add"
                             /\ result' = result
                        ELSE AfterChromaAdd
                ELSE /\ collection' = collection
                     /\ pc' = "raised"
                     /\ batch_start' = batch_start
                     /\ result' = result
    /\ UNCHANGED <<tree, data_exists, pinecone_index, use_pinecone, openai_client,
                   clone_exists, op, changed_files, force_rebuild, files_to_process,
                   documents, vectors_for_pinecone, processed_files, outcomes, runs,
                   gcvars, unitvars,
                   before, mainvars>>

\* _upload_to_pinecone, one pass of its batch loop: the whole loop is inside one
\* try, so a failing upsert ends the loop and the method returns False
FullUploadBatch ==
    /\ op = "process_all_files"
    /\ pc = "upload"
    /\ LET i == batch_start
           last == Min2(i + PineconeBatch, Len(vectors_for_pinecone))
           batch == SubSeq(vectors_for_pinecone, i + 1, last)
       IN  \E ok \in (IF faults < MaxFaults THEN BOOLEAN ELSE {TRUE}) :
             /\ calls' = Append(calls, [store |-> "pinecone", first |-> i,
                                        last |-> last, ok |-> ok])
             /\ faults' = faults + (IF ok THEN 0 ELSE 1)
             /\ IF ok
                THEN /\ pinecone_index' = IndexUpsert(pinecone_index, batch)
                     /\ IF i + PineconeBatch < Len(vectors_for_pinecone)
                        THEN /\ batch_start' = i + PineconeBatch
                             /\ pc' = "upload"
                             /\ result' = result
                        ELSE /\ batch_start' = batch_start
                             /\ pc' = "returned"
                             /\ result' = FullResult(documents, vectors_for_pinecone,
                                                     processed_files, TRUE)
                ELSE /\ pinecone_index' = pinecone_index
                     /\ batch_start' = batch_start
                     /\ pc' = "returned"
                     /\ result' = FullResult(documents, vectors_for_pinecone,
                                             processed_files, FALSE)
    /\ UNCHANGED <<tree, data_exists, collection, use_pinecone, openai_client,
                   clone_exists, op, changed_files, force_rebuild, files_to_process,
                   documents, vectors_for_pinecone, processed_files, outcomes, runs,
                   gcvars, unitvars,
                   before, mainvars>>

-----------------------------------------------------------------------------
(* main, after its call of process_all_files *)

\* get_collection_stats(): the count of the collection (the sample of sources
\* and file types is left out)
GetCollectionStats(coll) == [total_chunks |-> Cardinality(coll)]

\* result.get('success', True)
GetSuccess(r) == IF "success" \in DOMAIN r THEN r.success ELSE TRUE

\* the status of a process that ends in an exception nobody caught, and of one
\* that reaches the end of main
UncaughtStatus == 1

\* stats = processor.get_collection_stats(); json.dump({'result': ..., 'stats':
\* ..., 'timestamp': ...}) to processing_results.json
MainReport ==
    /\ op = "process_all_files"
    /\ pc = "returned"
    /\ report' = [result |-> result,
                  stats |-> GetCollectionStats(collection),
                  timestamp |-> TRUE]
    /\ pc' = "reported"
    /\ UNCHANGED <<envvars, op, changed_files, force_rebuild, files_to_process,
                   documents, vectors_for_pinecone, processed_files, batch_start,
                   result, histvars, exit_status, gcvars, unitvars>>

\* if not result.get('success', True): sys.exit(1)
MainExit ==
    /\ pc = "reported"
    /\ exit_status' = IF ~GetSuccess(result) THEN 1 ELSE 0
    /\ pc' = "exited"
    /\ UNCHANGED <<envvars, op, changed_files, force_rebuild, files_to_process,
                   documents, vectors_for_pinecone, processed_files, batch_start,
                   result, histvars, report, gcvars, unitvars>>

\* the exception that left process_all_files leaves main too: the statements
\* after the call are not reached
MainUncaught ==
    /\ op = "process_all_files"
    /\ pc = "raised"
    /\ exit_status' = UncaughtStatus
    /\ pc' = "exited"
    /\ UNCHANGED <<envvars, op, changed_files, force_rebuild, files_to_process,
                   documents, vectors_for_pinecone, processed_files, batch_start,
                   result, histvars, report, gcvars, unitvars>>

-----------------------------------------------------------------------------
(* process_repo_incremental *)

\* the arguments <<changed_files, force_rebuild>> of the calls: changed_files
\* None or [], lists of paths below the repository root, and the lists
\* ["REMOVED:old/file.py"] and ["FULL_SYNC"]
CallArgs ==
    {<< <<>>, FALSE >>, << <<PathA>>, FALSE >>,
     << <<PathImg, PathB, PathA>>, FALSE >>, << <<PathA>>, TRUE >>,
     << <<PathRemoved>>, FALSE >>, << <<PathSentinel>>, FALSE >>}

\* mutant of Finally: the clone directory is left where it is
FinallyKeep(exists) == exists

\* finally: "if os.path.exists(clone_path): shutil.rmtree(clone_path)", given
\* whether the directory exists when the block is entered; the value is whether
\* it exists afterwards (rmtree is taken to remove it)
Finally(exists) == IF exists THEN FALSE ELSE exists

\* the clone or pull, then "if force_rebuild or not changed_files". A failing
\* clone or pull (which may or may not leave a directory behind) is caught by
\* the outer except; finally removes the clone.
CallProcessRepoIncremental ==
    /\ AtRest
    /\ runs < MaxRuns
    /\ runs' = runs + 1
    /\ op' = "process_repo_incremental"
    /\ FreshLocals
    /\ \E args \in CallArgs :
       LET list == args[1]
           force == args[2]
       IN
         /\ changed_files' = list
         /\ force_rebuild' = force
         /\ \E cloned \in (IF faults < MaxFaults THEN BOOLEAN ELSE {TRUE}) :
              /\ faults' = faults + (IF cloned THEN 0 ELSE 1)
              /\ IF cloned
                 THEN /\ clone_exists' = TRUE
                      /\ pc' = "files"
                      /\ result' = NoResult
                      /\ files_to_process' =
                             IF force \/ list = <<>> THEN Rglob(tree)
                             ELSE ExistingOf(tree, list)
                 ELSE /\ \E left \in BOOLEAN :
                             clone_exists' = Finally(clone_exists \/ left)
                      /\ pc' = "returned"
                      /\ result' = [success |-> FALSE, error |-> "clone or pull failed",
                                    repo_url |-> RepoUrl]
                      /\ files_to_process' = <<>>
    /\ UNCHANGED <<tree, data_exists, collection, pinecone_index, use_pinecone,
                   openai_client, gcvars, unitvars>>

\* one pass of "for file_path in files_to_process"
IncrFile ==
    /\ op = "process_repo_incremental"
    /\ pc = "files"
    /\ files_to_process # <<>>
    /\ LET p == Head(files_to_process)
       IN  \E fate \in FateChoices(ClonePath, p) :
             LET what == Fate(ClonePath, p, fate)
                 text == LoadedText(p, fate)
                 records == IF IsProcessed(what)
                            THEN RepoRecords(p, text, GetFileHash(text, fate # "hash_fails"))
                            ELSE <<>>
                 removes == what \in {"raised", "processed", "processed_unhashed"}
                            /\ ~force_rebuild
             IN  /\ collection' = IF removes
                                  THEN RemoveFileChunks(collection, PathStr(p), RepoUrl)
                                  ELSE collection
                 /\ documents' = documents \o records
                 /\ processed_files' =
                        IF IsProcessed(what) THEN processed_files + 1 ELSE processed_files
                 /\ files_to_process' =
                        IF what = "raised" THEN AfterFileError(Tail(files_to_process))
                        ELSE Tail(files_to_process)
                 /\ outcomes' = Append(outcomes, [path |-> p, fate |-> what])
                 /\ faults' = faults + (IF IsFailure(fate) THEN 1 ELSE 0)
    /\ UNCHANGED <<tree, data_exists, pinecone_index, use_pinecone, openai_client,
                   clone_exists, op, pc, changed_files, force_rebuild,
                   vectors_for_pinecone, batch_start, result, calls, runs,
                   gcvars, unitvars,
                   before, mainvars>>

\* return {'success': True, 'processed_files': ..., 'total_chunks': ..., 'repo_url': ...}
IncrResult(docs, n) ==
    [success |-> TRUE, processed_files |-> n, total_chunks |-> Len(docs),
     repo_url |-> RepoUrl]

\* the traversal is over: "if documents:" adds them all in one call, whose
\* exception the outer except turns into a failure result; then the return, and
\* finally the clone is removed
IncrAddAndReturn ==
    /\ op = "process_repo_incremental"
    /\ pc = "files"
    /\ files_to_process = <<>>
    /\ IF documents # <<>>
       THEN \E ok \in (IF faults < MaxFaults THEN BOOLEAN ELSE {TRUE}) :
              /\ calls' = Append(calls, [store |-> "chroma", first |-> 0,
                                         last |-> Len(documents), ok |-> ok])
              /\ faults' = faults + (IF ok THEN 0 ELSE 1)
              /\ collection' = IF ok THEN CollectionAdd(collection, documents)
                               ELSE collection
              /\ result' = IF ok THEN IncrResult(documents, processed_files)
                           ELSE [success |-> FALSE, error |-> "add failed",
                                 repo_url |-> RepoUrl]
       ELSE /\ calls' = calls
            /\ faults' = faults
            /\ collection' = collection
            /\ result' = IncrResult(documents, processed_files)
    /\ pc' = "returned"
    /\ clone_exists' = Finally(clone_exists)
    /\ UNCHANGED <<tree, data_exists, pinecone_index, use_pinecone, openai_client,
                   op, changed_files, force_rebuild, files_to_process, documents,
                   vectors_for_pinecone, processed_files, batch_start, outcomes,
                   runs, gcvars, unitvars,
                   before, mainvars>>

-----------------------------------------------------------------------------
(* process_slack_files *)

\* return {'success': True, 'processed_files': ..., 'total_chunks': ...}
SlackResult(docs, n) ==
    [success |-> TRUE, processed_files |-> n, total_chunks |-> Len(docs)]

\* "if not os.path.exists(slack_files_dir)" returns at once, else the locals
\* are set up and the traversal begins
CallProcessSlackFiles ==
    /\ AtRest
    /\ runs < MaxRuns
    /\ runs' = runs + 1
    /\ op' = "process_slack_files"
    /\ FreshLocals
    /\ IF ~data_exists
       THEN /\ pc' = "returned"
            /\ result' = [success |-> TRUE, processed_files |-> 0,
                          message |-> "No slack files directory"]
            /\ files_to_process' = <<>>
       ELSE /\ pc' = "files"
            /\ result' = NoResult
            /\ files_to_process' = Rglob(tree)
    /\ UNCHANGED <<envvars, changed_files, force_rebuild, faults, gcvars, unitvars>>

\* one pass of "for file_path in slack_path.rglob('*')"
SlackFile ==
    /\ op = "process_slack_files"
    /\ pc = "files"
    /\ files_to_process # <<>>
    /\ LET p == Head(files_to_process)
       IN  \E fate \in FateChoices(SlackDir, p) :
             LET what == Fate(SlackDir, p, fate)
                 text == LoadedText(p, fate)
                 records == IF IsProcessed(what)
                            THEN SlackRecords(p, text, GetFileHash(text, fate # "hash_fails"))
                            ELSE <<>>
             IN  /\ documents' = documents \o records
                 /\ processed_files' =
                        IF IsProcessed(what) THEN processed_files + 1 ELSE processed_files
                 /\ files_to_process' =
                        IF what = "raised" THEN AfterFileError(Tail(files_to_process))
                        ELSE Tail(files_to_process)
                 /\ outcomes' = Append(outcomes, [path |-> p, fate |-> what])
                 /\ faults' = faults + (IF IsFailure(fate) THEN 1 ELSE 0)
    /\ UNCHANGED <<envvars, op, pc, changed_files, force_rebuild,
                   vectors_for_pinecone, batch_start, result, calls, runs,
                   before, mainvars, gcvars, unitvars>>

\* the traversal is over: "if documents:" adds them all in one call, outside
\* any try; then the return
SlackAddAndReturn ==
    /\ op = "process_slack_files"
    /\ pc = "files"
    /\ files_to_process = <<>>
    /\ IF documents # <<>>
       THEN \E ok \in (IF faults < MaxFaults THEN BOOLEAN ELSE {TRUE}) :
              /\ calls' = Append(calls, [store |-> "chroma", first |-> 0,
                                         last |-> Len(documents), ok |-> ok])
              /\ faults' = faults + (IF ok THEN 0 ELSE 1)
              /\ collection' = IF ok THEN CollectionAdd(collection, documents)
                               ELSE collection
              /\ pc' = IF ok THEN "returned" ELSE "raised"
              /\ result' = IF ok THEN SlackResult(documents, processed_files)
                           ELSE result
       ELSE /\ calls' = calls
            /\ faults' = faults
            /\ collection' = collection
            /\ pc' = "returned"
            /\ result' = SlackResult(documents, processed_files)
    /\ UNCHANGED <<tree, data_exists, pinecone_index, use_pinecone, openai_client,
                   clone_exists, op, changed_files, force_rebuild, files_to_process,
                   documents, vectors_for_pinecone, processed_files, batch_start,
                   outcomes, runs, before, mainvars, gcvars, unitvars>>

-----------------------------------------------------------------------------
(* The processor and its environment *)

Init ==
    /\ InitProcessor
    /\ ParkedUnits
    /\ content = <<>>
    /\ chunk_size = DefaultChunkSize
    /\ overlap = DefaultOverlap
    /\ InitCall

Next ==
    \/ EditFile
    \/ CallProcessAllFiles
    \/ FullFile
    \/ FullFilesDone
    \/ FullAddBatch
    \/ FullUploadBatch
    \/ CallProcessRepoIncremental
    \/ IncrFile
    \/ IncrAddAndReturn
    \/ CallProcessSlackFiles
    \/ SlackFile
    \/ SlackAddAndReturn
    \/ MainReport
    \/ MainExit
    \/ MainUncaught

Spec == Init /\ [][Next]_vars

-----------------------------------------------------------------------------
(* One call of get_chunks, statement by statement *)

\* all texts over the alphabet of length lo .. hi
TextsOfLen(n) == [1 .. n -> Alphabet]

SmallTexts == UNION {TextsOfLen(n) : n \in 0 .. MaxLen}

SmallConfigs ==
    {c \in ((MaxChunk - 1) .. MaxChunk) \X (0 .. MaxChunk) : c[2] < c[1]}

GetChunksCall ==
    /\ cpc = "call"
    /\ IF IsShort(content, chunk_size)
       THEN /\ chunks' = ShortResult(content)
            /\ spans' = <<<<0, Len(content)>>>>
            /\ cpc' = "done"
       ELSE /\ chunks' = <<>>
            /\ spans' = <<>>
            /\ cpc' = "loop"
    /\ start' = 0
    /\ UNCHANGED <<pvars, unitvars, content, chunk_size, overlap, windows>>

GetChunksLoop ==
    /\ cpc = "loop"
    /\ start < Len(content)
    /\ Len(windows) < Len(content) + MaxExtra
    /\ LET end == WindowEnd(content, chunk_size, start)
           chunk == ChunkText(content, start, end)
       IN  /\ chunks' = AppendChunk(chunks, chunk)
           /\ spans' = IF chunks' # chunks
                       THEN Append(spans, StripSpan(content, start, end))
                       ELSE spans
           /\ windows' = Append(windows, <<start, end>>)
           /\ start' = NextStart(content, overlap, end)
    /\ UNCHANGED <<pvars, unitvars, content, chunk_size, overlap, cpc>>

GetChunksReturn ==
    /\ cpc = "loop"
    /\ ~(start < Len(content))
    /\ cpc' = "done"
    /\ UNCHANGED <<pvars, unitvars, content, chunk_size, overlap, start, chunks, spans, windows>>

NextChunks == GetChunksCall \/ GetChunksLoop \/ GetChunksReturn

\* get_chunks on every small text under every small configuration
InitChunks ==
    /\ content \in SmallTexts
    /\ \E c \in SmallConfigs : chunk_size = c[1] /\ overlap = c[2]
    /\ InitCall
    /\ ParkedProcessor
    /\ ParkedUnits

SpecChunks == InitChunks /\ [][NextChunks]_vars

\* the text of length n with a period at every position of dots, a blank at
\* every other position of blanks, and a letter elsewhere
PatternText(n, dots, blanks) ==
    [i \in 1 .. n |->
        IF (i - 1) \in dots THEN "." ELSE IF (i - 1) \in blanks THEN " " ELSE "a"]

\* the positions below n that are off modulo stride
Every(n, stride, off) == {p \in 0 .. (n - 1) : p % stride = off}

DefaultLens == {50, DefaultChunkSize, DefaultChunkSize + 1, 2500, 10 * DefaultChunkSize}

\* period-free; a period early in every window (before the midpoint); a period
\* exactly at the midpoint of every window; periods just beyond it; periods
\* everywhere
DotPatterns(n) ==
    { {},
      Every(n, DefaultChunkSize - DefaultOverlap, 100),
      Every(n, DefaultChunkSize - DefaultOverlap, DefaultChunkSize \div 2),
      Every(n, DefaultChunkSize - DefaultOverlap, DefaultChunkSize \div 2 + 1),
      Every(n, 7, 3),
      0 .. (n - 1) }

\* no blank; blanks around every window edge; a blank text edge and a blank
\* run longer than a window; blanks inside the windows only
BlankPatterns(n) ==
    { {},
      {p \in 0 .. (n - 1) : p % (DefaultChunkSize - DefaultOverlap) \in {0, 199, 200, 799}},
      {p \in 0 .. (n - 1) : p < 3 \/ p >= n - 3 \/ (p >= 700 /\ p < 2000)},
      Every(n, 13, 6) }

DefaultTexts ==
    UNION {{PatternText(n, d, b) : d \in DotPatterns(n), b \in BlankPatterns(n)} :
              n \in DefaultLens}

\* get_chunks with its default parameters
InitDefault ==
    /\ content \in DefaultTexts
    /\ chunk_size = DefaultChunkSize
    /\ overlap = DefaultOverlap
    /\ InitCall
    /\ ParkedProcessor
    /\ ParkedUnits

SpecDefault == InitDefault /\ [][NextChunks]_vars

-----------------------------------------------------------------------------
(* What a returned list of chunks says about the text it was cut from *)

\* the number of source characters that chunk k shares with chunk k + 1: the
\* tail of the earlier span that is also the head of the later one
Shared(k) == Max2(0, Min2(spans[k][2], spans[k + 1][2]) - Max2(spans[k][1], spans[k + 1][1]))

\* the first chunk whole and of each later chunk the part beyond what it
\* shares with its predecessor, concatenated in order
RECURSIVE Reconstruct(_)
Reconstruct(k) ==
    IF k = 0 THEN <<>>
    ELSE IF k = 1 THEN chunks[1]
    ELSE Reconstruct(k - 1) \o Slice(chunks[k], Shared(k - 1), Len(chunks[k]))

\* the positions of content that lie in no chunk
Dropped ==
    {p \in 0 .. (Len(content) - 1) :
        \A k \in 1 .. Len(spans) : ~(spans[k][1] <= p /\ p < spans[k][2])}

\* s without the characters at the positions in D
RECURSIVE Without(_, _, _)
Without(s, D, n) ==
    IF n = 0 THEN <<>>
    ELSE IF (n - 1) \in D THEN Without(s, D, n - 1)
    ELSE Append(Without(s, D, n - 1), s[n])

\* the last period of the window [st, st + chunk_size), or -1
LastPeriod(st) == RFind(content, ".", st, st + chunk_size)

\* C5: for every text and every configuration with 0 <= overlap < chunk_size,
\* every loop iteration of get_chunks leaves start strictly greater than it
\* found it (also when the window end was snapped back to a period), so the
\* loop never stalls.
C5_StartAdvances ==
    [][(cpc = "loop" /\ start < Len(content)) => start' > start]_vars

\* C7: for every text with len(text) <= chunk_size, get_chunks returns exactly
\* one chunk, and that chunk is the text with leading and trailing whitespace
\* removed.
C7_ShortIsTrimmed ==
    (cpc = "done" /\ Len(content) <= chunk_size) => chunks = <<Strip(content)>>

\* C8: any two consecutive chunks returned by get_chunks share at least 0 and
\* at most overlap source characters.
C8_OverlapBound ==
    \A k \in 1 .. (Len(spans) - 1) :
        /\ spans[k][2] - spans[k + 1][1] <= overlap
        /\ Shared(k) >= 0
        /\ Shared(k) <= overlap

C8_Witness ==
    /\ cpc = "done"
    /\ Len(chunks) >= 3
    /\ overlap = 2
    /\ \E k \in 1 .. (Len(spans) - 1) : Shared(k) = overlap
    /\ \E k \in 1 .. (Len(spans) - 1) : Shared(k) < overlap

\* C9, as stated: the first chunk whole and the unshared part of each later
\* chunk, concatenated in order, is the original text.
C9_ReconstructsText == cpc = "done" => Reconstruct(Len(chunks)) = content

\* C9, amended: the concatenation is the original text less the whitespace that
\* strip() removed at the edges of chunks; every other character is kept, in
\* order.
C9_ReconstructsUpToWhitespace ==
    cpc = "done" =>
        /\ \A p \in Dropped : IsSpace(content[p + 1])
        /\ Reconstruct(Len(chunks)) = Without(content, Dropped, Len(content))

C9_Witness ==
    /\ cpc = "done"
    /\ Len(chunks) >= 2
    /\ Dropped # {}
    /\ \E k \in 1 .. (Len(spans) - 1) : Shared(k) > 0

\* C10, as stated: in a non-final window [start, start + chunk_size) the chunk
\* ends just after the window's last period when that period lies at or after
\* the midpoint (position >= start + chunk_size / 2), and at the raw cutoff
\* start + chunk_size otherwise.
C10_SnapAtOrAfterMidpoint ==
    \A i \in 1 .. Len(windows) :
        LET st == windows[i][1]
            end == windows[i][2]
            p == LastPeriod(st)
        IN  (st >= 0 /\ st + chunk_size < Len(content)) =>
                IF p >= 0 /\ 2 * p >= 2 * st + chunk_size
                THEN end = p + 1
                ELSE end = st + chunk_size

\* C10, amended: the chunk ends just after the window's last period when that
\* period lies strictly beyond position start + chunk_size // 2, and at the raw
\* cutoff start + chunk_size otherwise.
C10_SnapBeyondMidpoint ==
    \A i \in 1 .. Len(windows) :
        LET st == windows[i][1]
            end == windows[i][2]
            p == LastPeriod(st)
        IN  (st >= 0 /\ st + chunk_size < Len(content)) =>
                IF p > st + (chunk_size \div 2)
                THEN end = p + 1
                ELSE end = st + chunk_size

C10_Witness ==
    \E i \in 1 .. Len(windows) :
        /\ windows[i][1] + chunk_size < Len(content)
        /\ windows[i][2] < windows[i][1] + chunk_size
        /\ content[windows[i][2]] = "."
        /\ \E j \in 1 .. Len(windows) :
               /\ windows[j][1] + chunk_size < Len(content)
               /\ LastPeriod(windows[j][1]) >= windows[j][1]
               /\ windows[j][2] = windows[j][1] + chunk_size

\* the lengths of the returned chunks
ChunkLengths == [k \in 1 .. Len(chunks) |-> Len(chunks[k])]

NoPeriod == \A i \in 1 .. Len(content) : content[i] # "."

NoBlank == \A i \in 1 .. Len(content) : ~IsSpace(content[i])

\* C4: with the default parameters get_chunks terminates for every text: every
\* loop iteration leaves the window start strictly greater than it found it and
\* no greater than the length of the text, so the loop ends after at most
\* len(content) iterations.
C4_DefaultTerminates ==
    [][(cpc = "loop" /\ start < Len(content)) =>
          (start' > start /\ start' <= Len(content))]_vars

C4_Witness ==
    /\ cpc = "done"
    /\ Len(content) = 10 * DefaultChunkSize
    /\ NoPeriod
    /\ Len(windows) = 13

\* C6, as stated: a 2500-character text without periods is returned as exactly
\* three chunks of lengths 1000, 1000 and 500.
C6_Lengths_1000_1000_500 ==
    (cpc = "done" /\ Len(content) = 2500 /\ NoPeriod /\ NoBlank) =>
        ChunkLengths = <<1000, 1000, 500>>

\* C6, amended: a 2500-character text without periods is cut at the windows
\* [0, 1000), [800, 1800) and [1600, 2500); when no window starts or ends on
\* whitespace it is returned as exactly three chunks of lengths 1000, 1000 and
\* 900.
C6_Lengths_1000_1000_900 ==
    (cpc = "done" /\ Len(content) = 2500 /\ NoPeriod) =>
        /\ windows = << <<0, 1000>>, <<800, 1800>>, <<1600, 2500>> >>
        /\ (\A p \in {0, 999, 800, 1799, 1600, 2499} : ~IsSpace(content[p + 1])) =>
               ChunkLengths = <<1000, 1000, 900>>

C6_Witness ==
    /\ cpc = "done"
    /\ Len(content) = 2500
    /\ NoPeriod
    /\ ~NoBlank
    /\ ChunkLengths = <<1000, 1000, 900>>

C5_Witness ==
    /\ cpc = "loop"
    /\ Len(windows) >= 2
    /\ windows[1][2] < chunk_size

C7_Witness == cpc = "done" /\ Len(content) <= chunk_size /\ Len(content) > 0

-----------------------------------------------------------------------------
(* What a call of the processor leaves behind *)

\* the entries the call under way (or just ended) set out to visit
Traversal ==
    IF op = "process_repo_incremental" /\ ~force_rebuild /\ changed_files # <<>>
    THEN ExistingOf(tree, changed_files)
    ELSE Rglob(tree)

\* the call got past its first statements (the data directory exists, the clone
\* or pull succeeded) and its per-file loop has ended
LoopOver ==
    /\ op \in {"process_all_files", "process_repo_incremental", "process_slack_files"}
    /\ pc \in {"add", "upload", "returned", "raised"}
    /\ ~(/\ pc = "returned"
         /\ calls = <<>>
         /\ (~result.success \/ "message" \in DOMAIN result))

\* the records of documents that belong to the file p
DocsOf(p) == SelectSeq(documents, LAMBDA d : d.file_path = PathStr(p))

\* the chunk texts get_chunks returns for the file p
ExpectedChunks(p) == RunChunks[tree[p].text]

\* the root the call reads below
Root ==
    IF op = "process_all_files" THEN DataDir
    ELSE IF op = "process_slack_files" THEN SlackDir
    ELSE ClonePath

\* p is a file the filter accepts and that is not blank
IsCandidate(p) == IsEligible(Root, p, tree) /\ ~IsBlank(tree[p].text)

\* C1: after an incremental run over a changed file, the collection holds no
\* chunk of that path under the digest of an earlier content of the file (the
\* old chunks were deleted before the new ones were added).
C1_NoStaleChunks ==
    (/\ op = "process_repo_incremental"
     /\ pc = "returned"
     /\ ~force_rebuild
     /\ changed_files # <<>>
     /\ result.success) =>
        \A k \in 1 .. Len(outcomes) :
            outcomes[k].fate = "processed" =>
                \A r \in collection :
                    (/\ r.repo_url = RepoUrl
                     /\ r.file_path = PathStr(outcomes[k].path)
                     /\ r.file_hash # "") =>
                        r.file_hash = Md5OfContent(tree[outcomes[k].path].text)

\* the number of records that a store was to be sent in this call
SendTotal(store) ==
    IF store = "chroma" THEN Len(documents) ELSE Len(vectors_for_pinecone)

\* C2: when the store call for a batch fails, process_all_files does not abort:
\* every later batch (of the ChromaDB loop, of the Pinecone loop) is still sent,
\* and the call returns a result.
C2_BatchesIndependent ==
    (op = "process_all_files" /\ pc \in {"returned", "raised"}) =>
        \A k \in 1 .. Len(calls) :
            ~calls[k].ok =>
                /\ pc = "returned"
                /\ calls[k].last < SendTotal(calls[k].store) =>
                       \E j \in (k + 1) .. Len(calls) :
                           /\ calls[j].store = calls[k].store
                           /\ calls[j].first = calls[k].last

\* every entry of the traversal was visited, in order
VisitedAll ==
    /\ Len(outcomes) = Len(Traversal)
    /\ \A k \in 1 .. Len(outcomes) : outcomes[k].path = Traversal[k]

\* the chunks of the file p reached the upsert set, in order
ChunksReached(p) ==
    /\ Len(DocsOf(p)) = Len(ExpectedChunks(p))
    /\ \A i \in 1 .. Len(DocsOf(p)) :
           /\ DocsOf(p)[i].document = ExpectedChunks(p)[i]
           /\ DocsOf(p)[i].chunk_index = i - 1

\* C3, as stated: a failure while one file is loaded, hashed, chunked or
\* identified does not abort the run; the failing file is skipped, and the
\* chunks of every other candidate file reach the upsert set.
C3_FailingFileSkipped ==
    LoopOver =>
        /\ VisitedAll
        /\ \A k \in 1 .. Len(outcomes) :
               LET p == outcomes[k].path
                   f == outcomes[k].fate
               IN  IF f \in {"load_failed", "raised", "processed_unhashed"}
                   THEN DocsOf(p) = <<>>
                   ELSE IsCandidate(p) => ChunksReached(p)

\* C3, amended: a failure while one file is loaded, hashed or identified does not
\* abort the run and does not leave the per-file loop: a file whose load or
\* identification fails is skipped, a file whose hashing fails is still
\* processed, under an empty digest, and the chunks of every other candidate
\* file reach the upsert set; the call ends in an exception only when a store
\* call fails.
C3_FileFailureIsolated ==
    LoopOver =>
        /\ VisitedAll
        /\ \A k \in 1 .. Len(outcomes) :
               LET p == outcomes[k].path
                   f == outcomes[k].fate
               IN  IF f \in {"load_failed", "raised"}
                   THEN DocsOf(p) = <<>>
                   ELSE IsCandidate(p) =>
                            /\ ChunksReached(p)
                            /\ \A i \in 1 .. Len(DocsOf(p)) :
                                   DocsOf(p)[i].file_hash =
                                       IF f = "processed_unhashed" THEN ""
                                       ELSE Md5OfContent(tree[p].text)
        /\ processed_files =
               Cardinality({k \in 1 .. Len(outcomes) : IsProcessed(outcomes[k].fate)})
        /\ pc = "raised" => \E k \in 1 .. Len(calls) : ~calls[k].ok
        /\ pc = "returned" => "success" \in DOMAIN result

C3_Witness ==
    /\ op = "process_all_files"
    /\ pc = "returned"
    /\ result.success
    /\ \E k \in 1 .. Len(outcomes) :
           /\ outcomes[k].fate = "raised"
           /\ \E j \in (k + 1) .. Len(outcomes) :
                  /\ outcomes[j].fate = "processed"
                  /\ Len(DocsOf(outcomes[j].path)) = 2
    /\ result.total_chunks = 2


-----------------------------------------------------------------------------
(* The upsert set of a call *)

\* C11: every chunk that process_all_files, process_repo_incremental or
\* process_slack_files puts into the upsert set is non-empty after trimming
\* whitespace and at most chunk_size characters long.
C11_ChunksNonBlankAndBounded ==
    \A k \in 1 .. Len(documents) :
        /\ ~IsBlank(documents[k].document)
        /\ Len(documents[k].document) <= RunChunkSize

\* a call has put the chunks of the long file and of a short one into its
\* upsert set: a chunk of full length among them, and the blank window dropped
C11_Witness ==
    /\ op = "process_slack_files"
    /\ pc = "returned"
    /\ \E k \in 1 .. Len(documents) : Len(documents[k].document) = RunChunkSize
    /\ \E k \in 1 .. Len(documents) : Len(documents[k].document) < RunChunkSize
    /\ \E k \in 1 .. Len(outcomes) :
           /\ outcomes[k].fate = "processed"
           /\ tree[outcomes[k].path].text = TextLong
           /\ Len(DocsOf(outcomes[k].path)) = 2


-----------------------------------------------------------------------------
(* The strings that are hashed into chunk ids, as a function of their parts *)

\* the largest chunk index of the id strings that are built
MaxIndex == 1

IdVariants == {"data", "repo", "slack"}

\* the scope of an id: a data directory, a repository URL, the Slack directory
IdScopes(variant) ==
    CASE variant = "data" -> {"d", "d_a"}
      [] variant = "repo" -> {"u", "u_a"}
      [] variant = "slack" -> {SlackDir}

\* paths relative to the scope, with and without the separator "_" in them
IdPaths ==
    {[parts |-> <<"b">>, suffix |-> ""],
     [parts |-> <<"a_b">>, suffix |-> ""],
     [parts |-> <<"b_0">>, suffix |-> ""],
     [parts |-> <<"x", "b">>, suffix |-> ""],
     [parts |-> <<"y", "b">>, suffix |-> ""]}

\* get_file_hash gives a hex digest or ""
IdDigests == {"d1", "d2", ""}

IdTuples ==
    UNION {[variant : {v}, scope : IdScopes(v), path : IdPaths,
            index : 0 .. MaxIndex, digest : IdDigests] : v \in IdVariants}

\* the chunk id of the tuple, as the three loops build it
IdOf(t) ==
    CASE t.variant = "data" ->
             ChunkIdOfPath(t.scope \o "/" \o PathStr(t.path), t.index, t.digest)
      [] t.variant = "repo" ->
             ChunkIdOfRepo(t.scope, PathStr(t.path), t.index, t.digest)
      [] t.variant = "slack" ->
             ChunkIdOfSlack(Name(t.path), t.index, t.digest)

\* a processor and a chunker that are not in use
ParkedChunker ==
    /\ content = <<>>
    /\ chunk_size = DefaultChunkSize
    /\ overlap = DefaultOverlap
    /\ InitCall

\* two tuples of one variant
InitIds ==
    /\ id_args \in {pair \in IdTuples \X IdTuples : pair[1].variant = pair[2].variant}
    /\ id_strings = <<>>
    /\ ParkedProcessor
    /\ ParkedChunker
    /\ ParkedFilter
    /\ ParkedLoader
    /\ ParkedChat

BuildIds ==
    /\ id_strings = <<>>
    /\ id_strings' = <<IdOf(id_args[1]), IdOf(id_args[2])>>
    /\ UNCHANGED <<gcvars, pvars, id_args, filtervars, loadervars, chatvars>>

NextIds == BuildIds

SpecIds == InitIds /\ [][NextIds]_vars

\* C12: two different tuples (scope, path, chunk index, file digest) never
\* build the same id string, in the data-directory, the repository and the
\* Slack variant: no collision through a "_" in a scope or a path, and none
\* between two different files of one run.
C12_IdsInjective ==
    id_strings # <<>> =>
        (id_args[1] # id_args[2] => id_strings[1] # id_strings[2])


-----------------------------------------------------------------------------
(* A call of process_all_files and the store it found *)

\* the ids of the upsert set of the call
Emitted == {documents[k].id : k \in 1 .. Len(documents)}

\* C13: when process_all_files runs twice over an unchanged tree, with no
\* failure in either run, the second run emits exactly the chunk ids of the
\* first, and the store holds the same set of ids after it as before it.
C13_ReinsertionIdempotent ==
    (CleanFullRun /\ before.after_clean_full) =>
        /\ Emitted = before.emitted
        /\ IdsOf(collection) = IdsOf(before.store)
        /\ Cardinality(collection) = Cardinality(before.store)

C13_Witness ==
    /\ CleanFullRun
    /\ pc = "returned"
    /\ before.after_clean_full
    /\ Cardinality(before.emitted) = 3
    /\ result.total_chunks = 3
    /\ Cardinality(collection) = 3


-----------------------------------------------------------------------------
(* process_repo_incremental and the entries of its change list *)

\* an incremental call over the given change list has returned a success result
IncrementalOver(list) ==
    /\ op = "process_repo_incremental"
    /\ pc = "returned"
    /\ ~force_rebuild
    /\ changed_files = list
    /\ result.success

\* the calls that delete from the store (the code calls collection.delete and
\* pinecone_index.delete nowhere)
DeleteCalls == {k \in 1 .. Len(calls) : calls[k].store \in {"chroma.delete", "pinecone.delete"}}

\* the calls that add to the store
UpsertCalls == {k \in 1 .. Len(calls) : calls[k].store \in {"chroma", "pinecone"}}

\* C14: an incremental run over the single entry REMOVED:old/file.py reports
\* files_removed = 1 and no processed file, issues a delete for the path and no
\* upsert.
C14_RemovalOnlyDeletes ==
    IncrementalOver(<<PathRemoved>>) =>
        /\ "files_removed" \in DOMAIN result
        /\ result.files_removed = 1
        /\ result.processed_files = 0
        /\ DeleteCalls # {}
        /\ UpsertCalls = {}

\* the entries of the change list whose file is not on disk
AbsentEntries ==
    {k \in 1 .. Len(changed_files) :
        changed_files[k] \in Paths /\ ~Exists(tree, changed_files[k])}

\* C15: in an incremental run the entries of the change list whose file no
\* longer exists are counted as skipped in the result, the run is no failure and
\* the other entries are still processed.
C15_AbsentCountedAsSkipped ==
    (/\ op = "process_repo_incremental"
     /\ pc = "returned"
     /\ ~force_rebuild
     /\ AbsentEntries # {}
     /\ result.success) =>
        /\ VisitedAll
        /\ \E f \in DOMAIN result \ {"success", "repo_url", "processed_files", "total_chunks"} :
               result[f] = Cardinality(AbsentEntries)

\* C16: an incremental run over the single entry FULL_SYNC does what a full
\* rebuild of the same root does: it visits every entry below the root, and
\* counts and upserts what the full rebuild counts and upserts.
C16_SentinelIsFullMode ==
    IncrementalOver(<<PathSentinel>>) =>
        /\ Len(outcomes) = Len(Rglob(tree))
        /\ \A k \in 1 .. Len(outcomes) : outcomes[k].path = Rglob(tree)[k]
        /\ \A k \in 1 .. Len(outcomes) :
               (outcomes[k].fate = "processed") => ChunksReached(outcomes[k].path)


-----------------------------------------------------------------------------
(* The store calls of a call *)

\* the largest number of records the store takes in one call
BatchLimit(store) == IF store = "chroma" THEN ChromaBatch ELSE PineconeBatch

\* the calls to the store, in order
CallsTo(store) == SelectSeq(calls, LAMBDA c : c.store = store)

\* C17: every call to the store carries at most the store's batch limit, the
\* batches are consecutive slices of the prepared records in emission order, and
\* once a call has returned with no store call failed they hold every prepared
\* record exactly once; in process_all_files, process_repo_incremental and
\* process_slack_files alike.
C17_BatchesWithinLimit ==
    \A store \in {"chroma", "pinecone"} :
        LET sent == CallsTo(store)
        IN  /\ \A k \in 1 .. Len(sent) :
                   /\ sent[k].last - sent[k].first <= BatchLimit(store)
                   /\ sent[k].first < sent[k].last
                   /\ sent[k].first = (IF k = 1 THEN 0 ELSE sent[k - 1].last)
            /\ (/\ pc = "returned"
                /\ sent # <<>>
                /\ \A k \in 1 .. Len(sent) : sent[k].ok) =>
                   sent[Len(sent)].last = SendTotal(store)

\* C18: after a call of process_all_files in which every store call succeeded,
\* the store holds every chunk id the call emitted, for every eligible, readable,
\* non-blank file under the root, and still holds every record it held before
\* the call.
C18_FullModeAssertsPresence ==
    (/\ op = "process_all_files"
     /\ pc = "returned"
     /\ result.success
     /\ \A k \in 1 .. Len(calls) : calls[k].ok) =>
        /\ Emitted \subseteq IdsOf(collection)
        /\ \A k \in 1 .. Len(outcomes) :
               (IsCandidate(outcomes[k].path)
                /\ outcomes[k].fate \notin {"load_failed", "raised"}) =>
                   /\ ChunksReached(outcomes[k].path)
                   /\ IdsOf(Range(DocsOf(outcomes[k].path))) \subseteq IdsOf(collection)
        /\ before.store \subseteq collection

\* the call found records of a file that is gone since, and added new ones
C18_Witness ==
    /\ op = "process_all_files"
    /\ pc = "returned"
    /\ result.success
    /\ \A k \in 1 .. Len(calls) : calls[k].ok
    /\ \E r \in before.store :
           /\ r.file_path = PathStr(PathA)
           /\ r.source_type = "manual_upload"
    /\ tree[PathA] = Absent
    /\ Emitted # {}
    /\ Cardinality(collection) > Cardinality(before.store)


-----------------------------------------------------------------------------
(* main: the report and the exit status *)

\* the result says that the run failed
IndicatesFailure(r) == "success" \in DOMAIN r /\ ~r.success

\* C19: when the data directory is missing, process_all_files returns a failure
\* result with an error message, having read no file and written nothing to the
\* store, and the process exits with a non-zero status; and the process exits
\* with a non-zero status only when the result of the run indicates failure.
C19_MissingDataDirIsFatal ==
    (op = "process_all_files" /\ pc = "exited") =>
        /\ ~data_exists =>
               /\ IndicatesFailure(result)
               /\ "error" \in DOMAIN result
               /\ outcomes = <<>>
               /\ calls = <<>>
               /\ collection = before.store
               /\ exit_status # 0
        /\ exit_status # 0 => IndicatesFailure(result)

\* C20: when a run of main has ended, whether process_all_files succeeded or
\* failed (missing data directory, a failing file, a failing store batch), the
\* report with the timestamp and the result of the run has been written, before
\* the exit status is signalled.
C20_ReportAfterEveryRun ==
    (op = "process_all_files" /\ pc = "exited") =>
        /\ report # NoReport
        /\ report.timestamp
        /\ report.result = result
        /\ "success" \in DOMAIN report.result


-----------------------------------------------------------------------------
(* should_process_file, one call at a time *)

\* paths relative to the root: a denylisted folder name as the first, an
\* inner and the last segment and as part of a longer name, denylisted
\* extensions in lower, upper and mixed case, a name with two suffixes and a
\* dot file, whose suffix is empty
FilterPaths ==
    {[parts |-> <<"a.py">>, suffix |-> ".py"],
     [parts |-> <<"node_modules", "a.py">>, suffix |-> ".py"],
     [parts |-> <<"src", "node_modules", "a.py">>, suffix |-> ".py"],
     [parts |-> <<"src", "node_modules">>, suffix |-> ""],
     [parts |-> <<"src", "node_modules2", "a.py">>, suffix |-> ".py"],
     [parts |-> <<"img", "c.png">>, suffix |-> ".png"],
     [parts |-> <<"img", "c.PNG">>, suffix |-> ".PNG"],
     [parts |-> <<"img", "c.Png">>, suffix |-> ".Png"],
     [parts |-> <<"a.tar.gz">>, suffix |-> ".gz"],
     [parts |-> <<".png">>, suffix |-> ""]}

\* what the two stat() calls may give for a file of the size
StatChoices(size) ==
    {<<StatOf(size), StatOf(size)>>,
     <<StatOf(size), StatRaises>>,
     <<StatRaises, StatRaises>>}

\* the calls looked at: under two roots, one of them denylisted, on an empty
\* file and on files of the sizes around the limit
FilterArgs ==
    UNION {[root : {"data", "build"}, path : FilterPaths, size : {n},
            stats : StatChoices(n)] :
               n \in {0, SizeLimit - 1, SizeLimit, SizeLimit + 1}}

InitFilter ==
    /\ filter_args \in FilterArgs
    /\ filter_out = "none"
    /\ ParkedProcessor
    /\ ParkedChunker
    /\ ParkedIds
    /\ ParkedLoader
    /\ ParkedChat

\* return True / return False
PyBool(b) == IF b THEN "True" ELSE "False"

CallShouldProcessFile ==
    /\ filter_args # <<>>
    /\ filter_out = "none"
    /\ filter_out' = PyBool(ShouldProcessFile(filter_args.root, filter_args.path,
                                              filter_args.stats))
    /\ UNCHANGED <<gcvars, pvars, idvars, loadervars, chatvars, filter_args>>

SpecFilter == InitFilter /\ [][CallShouldProcessFile]_vars

\* the segments of root / path
Segments(a) == {a.root} \cup {a.path.parts[i] : i \in 1 .. Len(a.path.parts)}

\* C21: should_process_file accepts a file if and only if no segment of its
\* path is in the folder denylist, its lowercased extension is not in the
\* extension denylist and its size is at most 10 MiB (exactly 10 MiB passes,
\* 10 MiB + 1 byte is rejected).
C21_AcceptsIffAllowedAndSmall ==
    filter_out # "none" =>
        (filter_out = "True" <=>
            /\ Segments(filter_args) \cap skip_folders = {}
            /\ Lower(filter_args.path.suffix) \notin skip_extensions
            /\ filter_args.size <= SizeLimit)


-----------------------------------------------------------------------------
(* A file that cannot be hashed *)

\* the id of chunk i of the file p of the data directory when the digest is ""
UnhashedId(p, i) ==
    Md5OfString(DataDir \o "/" \o PathStr(p) \o "_" \o ToString(i) \o "_")

\* the files the loop of the call counted
Counted ==
    {k \in 1 .. Len(outcomes) :
        outcomes[k].fate \in {"processed", "processed_unhashed"}}

\* C22: when hashing a file fails with an I/O error, get_file_hash returns ""
\* and process_all_files still processes the file: its chunks are emitted, with
\* ids built from path and index and an empty digest, the file is counted in
\* processed_files, and the run is not aborted (the loop visits every later
\* entry and the call ends in an exception only when a store call fails).
C22_UnhashedFileStillProcessed ==
    (op = "process_all_files" /\ LoopOver) =>
        \A k \in 1 .. Len(outcomes) :
            outcomes[k].fate = "processed_unhashed" =>
                LET p == outcomes[k].path
                IN  /\ GetFileHash(tree[p].text, FALSE) = ""
                    /\ DocsOf(p) # <<>>
                    /\ ChunksReached(p)
                    /\ \A i \in 1 .. Len(DocsOf(p)) :
                           /\ DocsOf(p)[i].id = UnhashedId(p, i - 1)
                           /\ DocsOf(p)[i].file_hash = ""
                    /\ k \in Counted
                    /\ processed_files = Cardinality(Counted)
                    /\ VisitedAll
                    /\ pc = "raised" => \E j \in 1 .. Len(calls) : ~calls[j].ok
                    /\ pc = "returned" =>
                           /\ result.success
                           /\ result.processed_files = Cardinality(Counted)
                           /\ result.total_chunks = Len(documents)

\* a full run returned after the hashing of the two-chunk file failed and
\* another file was processed under its digest
C22_Witness ==
    /\ op = "process_all_files"
    /\ pc = "returned"
    /\ \E k \in 1 .. Len(outcomes) :
           /\ outcomes[k].fate = "processed_unhashed"
           /\ Len(DocsOf(outcomes[k].path)) = 2
    /\ \E k \in 1 .. Len(outcomes) : outcomes[k].fate = "processed"
    /\ result.processed_files = 2


-----------------------------------------------------------------------------
(* get_file_content, one call at a time *)

\* encodings = ['utf-8', 'utf-16', 'iso-8859-1', 'cp1252']
encodings == <<"utf-8", "utf-16", "iso-8859-1", "cp1252">>

\* what "with open(file_path, 'r', encoding=encoding) as file: file.read()" can
\* come to under an encoding: the text, a UnicodeDecodeError, for utf-16 also
\* the UnicodeError its decoder raises on a stream without a byte order mark
\* that it could otherwise decode, and an OSError of open or read.  iso-8859-1
\* maps every byte, so under it only an OSError is possible
ReadOutcomes(encoding) ==
    CASE encoding = "utf-8" -> {"text", "UnicodeDecodeError", "OSError"}
      [] encoding = "utf-16" ->
             {"text", "UnicodeDecodeError", "UnicodeError", "OSError"}
      [] encoding = "iso-8859-1" -> {"text", "OSError"}
      [] encoding = "cp1252" -> {"text", "UnicodeDecodeError", "OSError"}

\* a file, as what reading it gives under each encoding of the list
LoaderFiles ==
    {f \in [1 .. Len(encodings) -> {"text", "UnicodeDecodeError", "UnicodeError",
                                    "OSError"}] :
        \A i \in 1 .. Len(encodings) : f[i] \in ReadOutcomes(encodings[i])}

\* the text of the file under an encoding: the same bytes read differently
DecodedAs(encoding) == "text as " \o encoding

\* the for loop from encodings[i] on: the returned content, and how many
\* encodings were tried.  return file.read() / except UnicodeDecodeError:
\* continue / except Exception: return "" / after the loop: return ""
RECURSIVE TryEncodings(_, _)
TryEncodings(f, i) ==
    IF i > Len(encodings) THEN [content |-> "", tried |-> i - 1]
    ELSE IF f[i] = "text" THEN [content |-> DecodedAs(encodings[i]), tried |-> i]
    ELSE IF f[i] = "UnicodeDecodeError" THEN TryEncodings(f, i + 1)
    ELSE [content |-> "", tried |-> i]

InitLoader ==
    /\ loader_args \in LoaderFiles
    /\ loader_out = <<>>
    /\ ParkedProcessor
    /\ ParkedChunker
    /\ ParkedIds
    /\ ParkedFilter
    /\ ParkedChat

CallGetFileContent ==
    /\ loader_args # <<>>
    /\ loader_out = <<>>
    /\ loader_out' = TryEncodings(loader_args, 1)
    /\ UNCHANGED <<gcvars, pvars, idvars, filtervars, chatvars, loader_args>>

SpecLoader == InitLoader /\ [][CallGetFileContent]_vars

\* the encodings under which the file reads without error
Readable(f) == {i \in 1 .. Len(encodings) : f[i] = "text"}

\* C23: get_file_content tries utf-8, utf-16, iso-8859-1, cp1252 in that
\* order and returns the text of the earliest encoding that reads the file
\* without error: a failure under one encoding always leads to the next one
\* being tried, and "" is returned only when every encoding has failed.
C23_EarliestReadableEncoding ==
    loader_out # <<>> =>
        IF Readable(loader_args) = {}
        THEN /\ loader_out.content = ""
             /\ loader_out.tried = Len(encodings)
        ELSE LET first == CHOOSE i \in Readable(loader_args) :
                              \A j \in Readable(loader_args) : i <= j
             IN  /\ loader_out.content = DecodedAs(encodings[first])
                 /\ loader_out.tried = first


-----------------------------------------------------------------------------
(* The counts of a full run *)

\* a directory that holds one eligible file, of no more than chunk_size
\* characters, next to a directory, an image and a file above the size limit
OneFileTree == [InitialTree EXCEPT ![PathB] = Absent]

\* the processor over that directory, or over the one with a longer file too
InitDir ==
    /\ ProcessorOver(InitialTree) \/ ProcessorOver(OneFileTree)
    /\ ParkedUnits
    /\ ParkedChunker

SpecDir == InitDir /\ [][Next]_vars

\* the files of the data directory that the filter accepts
EligibleFiles == {p \in Paths : IsEligible(DataDir, p, tree)}

\* nothing failed while a file was read and identified
NoFileFailed ==
    \A k \in 1 .. Len(outcomes) : outcomes[k].fate \notin {"load_failed", "raised"}

\* C24: a full run over a directory that holds exactly one eligible file, whose
\* non-blank content is at most chunk_size characters long, returns
\* processed_files = 1 and total_chunks = 1 (when reading and identifying the
\* file does not fail); and in every full run each file counted in
\* processed_files contributes at least one chunk, so total_chunks >=
\* processed_files.
C24_OneSmallFileOneChunk ==
    (op = "process_all_files" /\ pc = "returned" /\ result.success) =>
        /\ \A k \in Counted : DocsOf(outcomes[k].path) # <<>>
        /\ result.processed_files = Cardinality(Counted)
        /\ result.total_chunks >= result.processed_files
        /\ \A p \in Paths :
               (/\ EligibleFiles = {p}
                /\ ~IsBlank(tree[p].text)
                /\ Len(tree[p].text) <= RunChunkSize
                /\ NoFileFailed) =>
                    /\ result.processed_files = 1
                    /\ result.total_chunks = 1

\* a full run over the directory with the one short file has returned 1 and 1
C24_Witness ==
    /\ op = "process_all_files"
    /\ pc = "returned"
    /\ result.success
    /\ EligibleFiles = {PathA}
    /\ Len(tree[PathA].text) <= RunChunkSize
    /\ NoFileFailed
    /\ result.processed_files = 1
    /\ result.total_chunks = 1


-----------------------------------------------------------------------------
(* The temporary clone *)

\* C25: process_repo_incremental removes its temporary clone directory on
\* every exit path: when the call has returned, with a success result or with
\* a failure result after a clone/pull, file or store error, the directory
\* clone_path does not exist; and the call returns a result (success true or
\* false) for every such error, it never ends in an exception.
C25_CloneRemovedOnEveryExit ==
    op = "process_repo_incremental" =>
        /\ pc # "raised"
        /\ pc = "returned" =>
               /\ ~clone_exists
               /\ "success" \in DOMAIN result
               /\ (\E k \in 1 .. Len(calls) : ~calls[k].ok) => ~result.success
               /\ (result.success /\ NoFileFailed) => VisitedAll
        /\ pc = "files" => clone_exists

\* the call has returned a failure result after the store call failed, with
\* the chunks of two files in hand, and the clone is gone
C25_Witness ==
    /\ op = "process_repo_incremental"
    /\ pc = "returned"
    /\ ~result.success
    /\ \E k \in 1 .. Len(calls) : ~calls[k].ok
    /\ processed_files = 2
    /\ ~clone_exists


-----------------------------------------------------------------------------
(* The chat page.  Streamlit runs main() from top to bottom once for every  *)
(* widget event of the session; st.session_state outlives the runs.  An     *)
(* event that arrives while a run is under way ends that run at the next    *)
(* command that sends an element to the browser (in the handler of Send:    *)
(* where st.spinner is entered and where it is left), with an exception     *)
(* that "except Exception" does not catch, and the script is run again for  *)
(* the event.                                                               *)

\* the accepted sends of a session that are looked at
MaxSends == 2

\* what the input box may hold when Send is clicked
Questions == {"q1", "q2", " "}

\* question.strip(), on these texts
StripQuestion(q) == IF q = " " THEN "" ELSE q

\* what the workflow of one call of chat does: the search finds matches, finds
\* none or fails (_search_relevant_content then returns []), the call of
\* Claude answers or fails (response_step then answers with the error), or
\* workflow.invoke raises
ChatOutcomes ==
    [search : {"found", "none", "fails"}, llm : {"answers", "fails"}, raises : {FALSE}]
        \cup {[search |-> "none", llm |-> "fails", raises |-> TRUE]}

\* final_state["search_results"]
SearchResults(outcome) ==
    IF outcome.search = "found" THEN <<"match1", "match2">> ELSE <<>>

\* LangGraphRAGSystem.chat(question, ..., conversation_history): the returned
\* dict (processing_time is left out)
Chat(q, conversation_history, outcome) ==
    IF outcome.raises
    THEN [answer |-> "Error processing your question",
          sources |-> <<>>,
          context_used |-> 0]
    ELSE [answer |-> IF outcome.llm = "answers" THEN "answer to " \o q
                     ELSE "Error generating response",
          sources |-> SearchResults(outcome),
          context_used |-> Len(SearchResults(outcome))]

\* ChatMessage(role="user", content=question, ...)
UserMessage(q) ==
    [role |-> "user", content |-> q, sources |-> <<>>, context_used |-> 0]

\* ChatMessage(role="assistant", content=result['answer'], ...)
AssistantMessage(r) ==
    [role |-> "assistant", content |-> r.answer, sources |-> r.sources,
     context_used |-> r.context_used]

\* st.session_state.chat_history[:-1]
AllButLast(list) == SubSeq(list, 1, Len(list) - 1)

\* a session opens the page: lines 596-599
InitChat ==
    /\ chat_history = <<>>
    /\ processing = FALSE
    /\ ui_pc = "rest"
    /\ question = ""
    /\ pending = "none"
    /\ chat_args = <<>>
    /\ ParkedProcessor
    /\ ParkedChunker
    /\ ParkedIds
    /\ ParkedFilter
    /\ ParkedLoader

\* a click on Send that line 786 accepts: processing is set and the user
\* message appended
UiSend ==
    /\ ui_pc = "rest"
    /\ Len(chat_history) + 2 <= 2 * MaxSends
    /\ \E q \in Questions :
         /\ StripQuestion(q) # ""
         /\ ~processing
         /\ question' = q
         /\ chat_history' = Append(chat_history, UserMessage(q))
    /\ processing' = TRUE
    /\ ui_pc' = "spinner_enter"
    /\ UNCHANGED <<gcvars, pvars, idvars, filtervars, loadervars, pending, chat_args>>

\* "with st.spinner(...)" is entered
UiSpinnerEnter ==
    /\ ui_pc = "spinner_enter"
    /\ pending = "none"
    /\ ui_pc' = "chat"
    /\ UNCHANGED <<gcvars, pvars, idvars, filtervars, loadervars, chat_history,
                   processing, question, pending, chat_args>>

\* rag_system.chat(...) and the append of the assistant message
UiChat ==
    /\ ui_pc = "chat"
    /\ \E outcome \in ChatOutcomes :
         LET conversation_history == AllButLast(chat_history)
             r == Chat(question, conversation_history, outcome)
         IN  /\ chat_args' = [question |-> question,
                              conversation_history |-> conversation_history]
             /\ chat_history' = Append(chat_history, AssistantMessage(r))
    /\ ui_pc' = "spinner_exit"
    /\ UNCHANGED <<gcvars, pvars, idvars, filtervars, loadervars, processing,
                   question, pending>>

\* the spinner is left, processing is reset, st.rerun()
UiFinish ==
    /\ ui_pc = "spinner_exit"
    /\ pending = "none"
    /\ processing' = FALSE
    /\ ui_pc' = "rest"
    /\ UNCHANGED <<gcvars, pvars, idvars, filtervars, loadervars, chat_history,
                   question, pending, chat_args>>

\* a click on Clear Chat between two runs: lines 655-657
UiClearChat ==
    /\ ui_pc = "rest"
    /\ chat_history # <<>>
    /\ chat_history' = <<>>
    /\ UNCHANGED <<gcvars, pvars, idvars, filtervars, loadervars, processing,
                   ui_pc, question, pending, chat_args>>

\* a click on Clear Chat or on Send while the run of a Send is under way (the
\* page of that run shows both buttons enabled, processing was false when it
\* was drawn)
UiClickDuringRun ==
    /\ ui_pc # "rest"
    /\ pending = "none"
    /\ pending' \in {"clear", "send"}
    /\ UNCHANGED <<gcvars, pvars, idvars, filtervars, loadervars, chat_history,
                   processing, ui_pc, question, chat_args>>

\* the run under way ends where it enters or leaves the spinner, and the
\* script runs for the event: Clear Chat empties the history, and a Send is
\* not accepted by line 786, since processing is still set
UiInterrupt ==
    /\ ui_pc \in {"spinner_enter", "spinner_exit"}
    /\ pending # "none"
    /\ chat_history' = IF pending = "clear" THEN <<>> ELSE chat_history
    /\ pending' = "none"
    /\ ui_pc' = "rest"
    /\ UNCHANGED <<gcvars, pvars, idvars, filtervars, loadervars, processing,
                   question, chat_args>>

NextChat ==
    \/ UiSend
    \/ UiSpinnerEnter
    \/ UiChat
    \/ UiFinish
    \/ UiClearChat
    \/ UiClickDuringRun
    \/ UiInterrupt

SpecChat == InitChat /\ [][NextChat]_vars

\* user and assistant messages alternate, from a user message on, in pairs
Alternating(list) ==
    /\ Len(list) % 2 = 0
    /\ \A i \in 1 .. Len(list) :
           list[i].role = IF i % 2 = 1 THEN "user" ELSE "assistant"

\* C26: after any sequence of Send and Clear Chat actions chat_history is a
\* sequence of alternating user and assistant messages that starts with a user
\* message and has even length, and the processing flag is false again; every
\* accepted Send appends one user message and then one assistant message (an
\* error answer when the workflow fails: chat never raises, and its
\* context_used is the number of its sources), and the history handed to chat
\* excludes the question being asked.
C26_HistoryAlternates ==
    /\ ui_pc = "rest" =>
           /\ Alternating(chat_history)
           /\ ~processing
    /\ ui_pc = "spinner_exit" =>
           /\ Alternating(chat_history)
           /\ chat_history[Len(chat_history) - 1] = UserMessage(question)
           /\ chat_args.question = question
           /\ chat_args.conversation_history = SubSeq(chat_history, 1, Len(chat_history) - 2)
    /\ \A i \in 1 .. Len(chat_history) :
           chat_history[i].context_used = Len(chat_history[i].sources)

=============================================================================
